---- MODULE Spec2Model ----
(***************************************************************************)
(* The animated scene lifecycle of my-threejs-app/src/App.vue: mount       *)
(* (initThree), the GLTF loader callbacks, the requestAnimationFrame loop  *)
(* (animate), the resize handler and unmount (onUnmounted).                *)
(*                                                                         *)
(* Rotations are JavaScript Numbers (IEEE-754 binary64).  A Number v with  *)
(* |v| < 2 that is a multiple of 2^-60 is the record                       *)
(*   [neg |-> v < 0, hi |-> h, lo |-> l]   with  |v| = (h * 2^30 + l) / 2^60 *)
(* and every sum is rounded to 53 significant bits, ties to even, as the   *)
(* hardware does.                                                          *)
(***************************************************************************)
EXTENDS Integers, Sequences, FiniteSets, TLC

\* ------------------------------------------------------------------------
\* Bounds of the model
\* ------------------------------------------------------------------------
\* Longest asset (number of nodes visited by model.traverse) in Spec.
MaxNodes == 3
\* Frame callbacks executed in Spec.
MaxFrames == 8
\* Frame callbacks executed in HingeSpec (the floor is passed at frame 305).
MaxHingeFrames == 310

\* ------------------------------------------------------------------------
\* binary64 arithmetic on multiples of 2^-60 below 2 in magnitude
\* ------------------------------------------------------------------------
LimbBase == 2^30

Dbl(n, h, l) == [neg |-> n, hi |-> h, lo |-> l]

Zero == Dbl(FALSE, 0, 0)

IsZero(a) == a.hi = 0 /\ a.lo = 0

MagLess(a, b) == a.hi < b.hi \/ (a.hi = b.hi /\ a.lo < b.lo)

MagAdd(a, b) ==
  LET l == a.lo + b.lo
  IN  [hi |-> a.hi + b.hi + (l \div LimbBase), lo |-> l % LimbBase]

\* a - b for magnitudes with b <= a
MagSub(a, b) ==
  LET l == a.lo - b.lo
  IN  IF l < 0 THEN [hi |-> a.hi - b.hi - 1, lo |-> l + LimbBase]
               ELSE [hi |-> a.hi - b.hi, lo |-> l]

\* The spacing of binary64 values at a magnitude, in units of 2^-60: 1 below
\* 2^53 units (every multiple of the unit is a binary64 value there), doubling
\* with each binade above.
RECURSIVE Quantum(_)
Quantum(h) == IF h < 2^23 THEN 1 ELSE 2 * Quantum(h \div 2)

\* Round a magnitude to the nearest binary64 value, ties to even.
RoundMag(m) ==
  LET q    == Quantum(m.hi)
      r    == m.lo % q
      down == [hi |-> m.hi, lo |-> m.lo - r]
      odd  == ((m.lo - r) \div q) % 2 = 1
      up   == MagAdd(down, [hi |-> 0, lo |-> q])
  IN  IF 2 * r > q \/ (2 * r = q /\ odd) THEN up ELSE down

Neg(a) == IF IsZero(a) THEN a ELSE Dbl(~a.neg, a.hi, a.lo)

\* a + b in binary64
FAdd(a, b) ==
  IF a.neg = b.neg
  THEN LET m == RoundMag(MagAdd(a, b)) IN Dbl(a.neg, m.hi, m.lo)
  ELSE IF MagLess(a, b)
       THEN LET m == RoundMag(MagSub(b, a)) IN Dbl(b.neg, m.hi, m.lo)
       ELSE LET m == RoundMag(MagSub(a, b))
            IN  Dbl(a.neg /\ ~(m.hi = 0 /\ m.lo = 0), m.hi, m.lo)

\* a - b in binary64
FSub(a, b) == FAdd(a, Dbl(~b.neg, b.hi, b.lo))

\* a > b
FGreater(a, b) ==
  IF a.neg = b.neg
  THEN IF a.neg THEN MagLess(a, b) ELSE MagLess(b, a)
  ELSE b.neg /\ ~(IsZero(a) /\ IsZero(b))

\* ------------------------------------------------------------------------
\* Program constants
\* ------------------------------------------------------------------------
\* null, the initial value of every ref
NULL == 0
\* a live object held by a ref (the canvas element, new THREE.Scene(), ...)
OBJECT == 1

\* Faulty variant: const rotationSpeed = 0.05
RotationSpeedTenfold == Dbl(FALSE, 53687091, 214748368)

\* const rotationSpeed = 0.005
RotationSpeed == Dbl(FALSE, 5368709, 128849019)
\* Math.PI / 2
HalfPi == Dbl(FALSE, 1686629713, 70064128)
\* 0.05
Buffer == Dbl(FALSE, 53687091, 214748368)
\* -Math.PI / 2 + 0.05
Floor == FAdd(Neg(HalfPi), Buffer)

InnerName == "laptop_inner_display"
OuterName == "laptop_outer_display"
ScreenName == "laptop_screen"

\* ------------------------------------------------------------------------
\* Inputs: the environment's viewport sizes and the assets the loader may
\* deliver.  An asset is the sequence of its nodes in traversal order; a node
\* has a name, is a THREE.Mesh or not, and carries the x-rotation it was
\* exported with.  A mesh has either one material or an array of them.
\* ------------------------------------------------------------------------
Viewports == {<<800, 600>>, <<1200, 800>>}

SingleMaterial == [array |-> FALSE, count |-> 1]
NoMaterial == [array |-> FALSE, count |-> 0]
MaterialArray(k) == [array |-> TRUE, count |-> k]

NodeWith(n, m, r, mat) == [name |-> n, mesh |-> m, rot |-> r, material |-> mat]

Node(n, m, r) == NodeWith(n, m, r, IF m THEN SingleMaterial ELSE NoMaterial)

\* -1.51, three steps above the point where the hinge stops
NearFloor == Dbl(TRUE, 1621350154, 257698048)
Quarter == Dbl(FALSE, 268435456, 0)
MinusHalf == Dbl(TRUE, 536870912, 0)
\* 0.01, two steps above 0.0
Hundredth == Dbl(FALSE, 10737418, 257698038)

NodeKinds ==
  { Node(InnerName, TRUE, Zero),
    Node(InnerName, TRUE, NearFloor),
    Node(InnerName, TRUE, Floor),
    Node(InnerName, TRUE, Hundredth),
    Node(OuterName, TRUE, Quarter),
    Node(ScreenName, TRUE, MinusHalf),
    Node(InnerName, FALSE, Zero),
    Node("Laptop_Screen", TRUE, Zero) }

Assets == UNION { [1..n -> NodeKinds] : n \in 0..MaxNodes }

\* Assets whose meshes differ in how they hold their materials
MaterialKinds ==
  { Node(InnerName, TRUE, Zero),
    NodeWith("Laptop_Body", TRUE, Zero, MaterialArray(2)),
    NodeWith("Laptop_Keys", TRUE, Zero, MaterialArray(1)),
    NodeWith("Laptop_Empty", TRUE, Zero, MaterialArray(0)),
    Node("Scene", FALSE, Zero) }

MaterialAssets == UNION { [1..n -> MaterialKinds] : n \in 0..MaxNodes }

HingeAssets ==
  { <<Node(InnerName, TRUE, Zero), Node(OuterName, TRUE, Quarter),
      Node(ScreenName, TRUE, MinusHalf)>> }

\* ------------------------------------------------------------------------
\* State
\* ------------------------------------------------------------------------
VARIABLES
  lifecycle,         \* "setup", "mounted" or "unmounted": the host's hooks so far
  canvasRef,         \* the template ref
  scene, camera, renderer,
  innerDisplay, outerDisplay, screen,   \* NULL or the index of a node of model
  animationFrameId,  \* NULL or the handle of the last requested frame
  sceneChildren,     \* what scene.add has put into the Scene object
  cameraAspect,      \* camera.aspect, the quotient n / d as <<n, d>> in lowest terms
  rendererSize,      \* <<w, h>>
  rendererDisposed,
  planeDisposed,     \* geometry and material of the ground plane released
  nodesDisposed,     \* model nodes whose geometry was released
  materialsDisposed, \* <<node, k>>: the k-th material of the node was released
  viewport,          \* <<window.innerWidth, window.innerHeight>>
  resizeListener,    \* handleResize is registered on window
  loadState,         \* "idle", "pending", "loaded" or "failed"
  model,             \* gltf.scene in traversal order, << >> until delivered
  rotation,          \* rotation.x of every node of model
  castShadow,        \* nodes with castShadow and receiveShadow set
  pending,           \* handles in the host's animation frame callback list
  nextHandle,        \* the handle the next requestAnimationFrame returns
  frames,            \* executions of animate that passed the guard
  draws,             \* renderer.render calls
  animateCalls,      \* invocations of animate
  console,           \* the last message logged
  resized,           \* handleResize has updated the camera and the renderer
  uncaught           \* a handler ended in a TypeError (a property of null read)

vars ==
  <<lifecycle, canvasRef, scene, camera, renderer, innerDisplay, outerDisplay,
    screen, animationFrameId, sceneChildren, cameraAspect, rendererSize,
    rendererDisposed, planeDisposed, nodesDisposed, materialsDisposed, viewport,
    resizeListener,
    loadState, model, rotation, castShadow, pending, nextHandle, frames, draws,
    animateCalls, console, resized, uncaught>>

refVars == <<scene, camera, renderer, canvasRef>>
nodeRefVars == <<innerDisplay, outerDisplay, screen>>
sceneVars == <<sceneChildren, cameraAspect, rendererSize>>
disposeVars ==
  <<rendererDisposed, planeDisposed, nodesDisposed, materialsDisposed>>
loopVars == <<animationFrameId, pending, nextHandle, rotation, frames, draws, animateCalls>>
modelVars == <<model, castShadow>>

Init ==
  /\ lifecycle = "setup"
  /\ canvasRef = NULL
  /\ scene = NULL /\ camera = NULL /\ renderer = NULL
  /\ innerDisplay = NULL /\ outerDisplay = NULL /\ screen = NULL
  /\ animationFrameId = NULL
  /\ sceneChildren = << >>
  /\ cameraAspect = <<0, 0>>
  /\ rendererSize = <<0, 0>>
  /\ rendererDisposed = FALSE
  /\ planeDisposed = FALSE
  /\ nodesDisposed = {}
  /\ materialsDisposed = {}
  /\ viewport \in Viewports
  /\ resizeListener = FALSE
  /\ loadState = "idle"
  /\ model = << >>
  /\ rotation = << >>
  /\ castShadow = {}
  /\ pending = {}
  /\ nextHandle = 1
  /\ frames = 0
  /\ draws = 0
  /\ animateCalls = 0
  /\ console = ""
  /\ resized = FALSE
  /\ uncaught = FALSE

\* ------------------------------------------------------------------------
\* animate
\* ------------------------------------------------------------------------
\* Faulty variant: the step is added, the hinge re-opens
StepRotationReversed(x) ==
  IF FGreater(x, Floor) THEN FAdd(x, RotationSpeed) ELSE x

\* Faulty variant: the decrement is applied whatever the value is
StepRotationUnclamped(x) == FSub(x, RotationSpeed)

\* Faulty variant: at the floor the step is taken back, the hinge jitters
StepRotationBounces(x) ==
  IF FGreater(x, Floor) THEN FSub(x, RotationSpeed) ELSE FAdd(x, RotationSpeed)

\* The clamped decrement of innerDisplay.rotation.x
StepRotation(x) == IF FGreater(x, Floor) THEN FSub(x, RotationSpeed) ELSE x

\* Faulty variant: the screen is synchronised from its own value
UpdateRotationScreenStale(rot, inner, outer, scr) ==
  IF inner # NULL
  THEN LET r1 == [rot EXCEPT ![inner] = StepRotation(rot[inner])]
           r2 == IF outer # NULL THEN [r1 EXCEPT ![outer] = r1[inner]] ELSE r1
       IN  r2
  ELSE rot

\* Faulty variant: without innerDisplay the step is applied to outerDisplay
UpdateRotationDrivesOuter(rot, inner, outer, scr) ==
  IF inner # NULL
  THEN LET r1 == [rot EXCEPT ![inner] = StepRotation(rot[inner])]
           r2 == IF outer # NULL THEN [r1 EXCEPT ![outer] = r1[inner]] ELSE r1
           r3 == IF scr # NULL THEN [r2 EXCEPT ![scr] = r2[inner]] ELSE r2
       IN  r3
  ELSE IF outer # NULL
       THEN [rot EXCEPT ![outer] = StepRotation(rot[outer])]
       ELSE rot

\* The update step: rot after lines 146-156 with the refs inner, outer, scr
UpdateRotation(rot, inner, outer, scr) ==
  IF inner # NULL
  THEN LET r1 == [rot EXCEPT ![inner] = StepRotation(rot[inner])]
           r2 == IF outer # NULL THEN [r1 EXCEPT ![outer] = r1[inner]] ELSE r1
           r3 == IF scr # NULL THEN [r2 EXCEPT ![scr] = r2[inner]] ELSE r2
       IN  r3
  ELSE rot

\* Faulty variant: animate without the guard on renderer.value
AnimateUnguarded(rend, scn, cam, inner, outer, scr, rot, pend) ==
  /\ animateCalls' = animateCalls + 1
  /\ animationFrameId' = nextHandle
  /\ pending' = pend \cup {nextHandle}
  /\ nextHandle' = nextHandle + 1
  /\ rotation' = UpdateRotation(rot, inner, outer, scr)
  /\ frames' = frames + 1
  /\ draws' = IF scn # NULL /\ cam # NULL THEN draws + 1 ELSE draws

\* Faulty variant: animate requests a frame on entry and again after drawing
AnimateRequestsTwice(rend, scn, cam, inner, outer, scr, rot, pend) ==
  /\ animateCalls' = animateCalls + 1
  /\ IF rend = NULL
     THEN /\ animationFrameId' = animationFrameId
          /\ pending' = pend
          /\ nextHandle' = nextHandle
          /\ rotation' = rot
          /\ frames' = frames
          /\ draws' = draws
     ELSE /\ animationFrameId' = nextHandle + 1
          /\ pending' = pend \cup {nextHandle, nextHandle + 1}
          /\ nextHandle' = nextHandle + 2
          /\ rotation' = UpdateRotation(rot, inner, outer, scr)
          /\ frames' = frames + 1
          /\ draws' = IF scn # NULL /\ cam # NULL THEN draws + 1 ELSE draws

\* animate() run with renderer.value = rend, ..., node rotations rot and the
\* host's callback list pend.
Animate(rend, scn, cam, inner, outer, scr, rot, pend) ==
  /\ animateCalls' = animateCalls + 1
  /\ IF rend = NULL
     THEN /\ animationFrameId' = animationFrameId
          /\ pending' = pend
          /\ nextHandle' = nextHandle
          /\ rotation' = rot
          /\ frames' = frames
          /\ draws' = draws
     ELSE /\ animationFrameId' = nextHandle
          /\ pending' = pend \cup {nextHandle}
          /\ nextHandle' = nextHandle + 1
          /\ rotation' = UpdateRotation(rot, inner, outer, scr)
          /\ frames' = frames + 1
          /\ draws' = IF scn # NULL /\ cam # NULL THEN draws + 1 ELSE draws

\* The host runs a callback of its animation frame callback list.
FrameWithin(maxFrames) ==
  /\ frames < maxFrames
  /\ \E h \in pending :
       Animate(renderer, scene, camera, innerDisplay, outerDisplay, screen,
               rotation, pending \ {h})
  /\ UNCHANGED <<lifecycle, refVars, nodeRefVars, sceneVars, disposeVars,
                 viewport, resizeListener, loadState, modelVars, console,
                 resized, uncaught>>

Frame == FrameWithin(MaxFrames)

HingeFrame == FrameWithin(MaxHingeFrames)

\* ------------------------------------------------------------------------
\* onMounted -> initThree
\* ------------------------------------------------------------------------
\* The greatest common divisor of two positive integers
RECURSIVE Gcd(_, _)
Gcd(a, b) == IF b = 0 THEN a ELSE Gcd(b, a % b)

\* window.innerWidth / window.innerHeight for the viewport v
Aspect(v) == LET g == Gcd(v[1], v[2]) IN <<v[1] \div g, v[2] \div g>>

\* initThree with canvasRef.value = c; the loop's state is left to the caller
InitThree(c) ==
  /\ lifecycle = "setup"
  /\ lifecycle' = "mounted"
  /\   /\ canvasRef' = c
     /\ IF c = NULL
        THEN /\ console' = "Canvas element not found!"
             /\ UNCHANGED <<scene, camera, renderer, sceneVars, loadState,
                            resizeListener>>
        ELSE /\ scene' = OBJECT
             /\ camera' = OBJECT
             /\ cameraAspect' = Aspect(viewport)
             /\ renderer' = OBJECT
             /\ rendererSize' = viewport
             /\ sceneChildren' = <<"ambientLight", "directionalLight", "plane">>
             /\ loadState' = "pending"
             /\ resizeListener' = TRUE
             /\ console' = console
  /\ UNCHANGED <<nodeRefVars, disposeVars, viewport, modelVars, resized,
                 uncaught>>

\* Faulty variant: onMounted calls animate() right after initThree()
MountStartsLoop ==
  \E c \in {NULL, OBJECT} :
    /\ InitThree(c)
    /\ Animate(c, c, c, NULL, NULL, NULL, rotation, pending)

\* onMounted: the host binds the template ref (or fails to) and the hook runs
\* initThree; animate is not called here.
Mount ==
  /\ \E c \in {NULL, OBJECT} : InitThree(c)
  /\ UNCHANGED loopVars

\* ------------------------------------------------------------------------
\* The loader's callbacks
\* ------------------------------------------------------------------------
\* Faulty variant: a ref that is already set is kept (the first match wins)
VisitFirstMatch(node, i, refs) ==
  IF node.mesh
  THEN IF node.name = InnerName
       THEN IF refs.inner = NULL THEN [refs EXCEPT !.inner = i] ELSE refs
       ELSE IF node.name = OuterName
       THEN IF refs.outer = NULL THEN [refs EXCEPT !.outer = i] ELSE refs
       ELSE IF node.name = ScreenName
       THEN IF refs.screen = NULL THEN [refs EXCEPT !.screen = i] ELSE refs
       ELSE refs
  ELSE refs

\* The body of the traverse callback for the node at index i
Visit(node, i, refs) ==
  IF node.mesh
  THEN IF node.name = InnerName THEN [refs EXCEPT !.inner = i]
       ELSE IF node.name = OuterName THEN [refs EXCEPT !.outer = i]
       ELSE IF node.name = ScreenName THEN [refs EXCEPT !.screen = i]
       ELSE refs
  ELSE refs

\* model.traverse from node i on
RECURSIVE Traverse(_, _, _)
Traverse(nodes, i, refs) ==
  IF i > Len(nodes) THEN refs
  ELSE Traverse(nodes, i + 1, Visit(nodes[i], i, refs))

\* Faulty variant: scene.value.add(obj) without the optional chaining
SceneAddUnchecked(scn, children, obj) ==
  IF scn # NULL THEN [threw |-> FALSE, children |-> Append(children, obj)]
                ELSE [threw |-> TRUE, children |-> children]

\* scene.value?.add(obj): the children of the Scene afterwards, and whether
\* the statement threw
SceneAdd(scn, children, obj) ==
  IF scn # NULL THEN [threw |-> FALSE, children |-> Append(children, obj)]
                ELSE [threw |-> FALSE, children |-> children]

\* The success callback, delivered an asset of the set assets
LoadSuccessOf(assets) ==
  /\ loadState = "pending"
  /\ loadState' = "loaded"
  /\ \E a \in assets :
       LET found == Traverse(a, 1, [inner |-> innerDisplay,
                                    outer |-> outerDisplay,
                                    screen |-> screen])
           added == SceneAdd(scene, sceneChildren, "model")
           rot0  == [i \in 1..Len(a) |-> a[i].rot]
       IN  /\ model' = a
           /\ castShadow' = {i \in 1..Len(a) : a[i].mesh}
           /\ innerDisplay' = found.inner
           /\ outerDisplay' = found.outer
           /\ screen' = found.screen
           /\ sceneChildren' = added.children
           /\ uncaught' = (uncaught \/ added.threw)
           /\ IF added.threw
              THEN /\ rotation' = rot0
                   /\ console' = "Model loaded successfully!"
                   /\ UNCHANGED <<animationFrameId, pending, nextHandle, frames,
                                  draws, animateCalls>>
              ELSE /\ console' = "Model added to scene. Starting animation loop."
                   /\ Animate(renderer, scene, camera, found.inner, found.outer,
                              found.screen, rot0, pending)
  /\ UNCHANGED <<lifecycle, refVars, cameraAspect, rendererSize, disposeVars,
                 viewport, resizeListener, resized>>

LoadSuccess == LoadSuccessOf(Assets)

HingeLoadSuccess == LoadSuccessOf(HingeAssets)

LoadProgress ==
  /\ loadState = "pending"
  /\ console' = "% loaded"
  /\ UNCHANGED <<lifecycle, refVars, nodeRefVars, sceneVars, disposeVars,
                 viewport, resizeListener, loadState, modelVars, loopVars,
                 resized, uncaught>>

\* Faulty variant: the error callback starts the render loop as the success callback does
LoadErrorStartsLoop ==
  /\ loadState = "pending"
  /\ loadState' = "failed"
  /\ console' = "An error happened loading the model:"
  /\ Animate(renderer, scene, camera, innerDisplay, outerDisplay, screen,
             rotation, pending)
  /\ UNCHANGED <<lifecycle, refVars, nodeRefVars, sceneVars, disposeVars,
                 viewport, resizeListener, modelVars, resized, uncaught>>

LoadError ==
  /\ loadState = "pending"
  /\ loadState' = "failed"
  /\ console' = "An error happened loading the model:"
  /\ UNCHANGED <<lifecycle, refVars, nodeRefVars, sceneVars, disposeVars,
                 viewport, resizeListener, modelVars, loopVars, resized,
                 uncaught>>

\* ------------------------------------------------------------------------
\* handleResize
\* ------------------------------------------------------------------------
\* Faulty variant: the renderer is resized, camera.aspect is left as it was
HandleResizeAspectStale(cam, rend, v, aspect, size) ==
  IF cam # NULL /\ rend # NULL
  THEN [ran |-> TRUE, aspect |-> aspect, size |-> v]
  ELSE [ran |-> FALSE, aspect |-> aspect, size |-> size]

\* handleResize in the viewport v: the camera's aspect and the renderer's size
\* afterwards
HandleResize(cam, rend, v, aspect, size) ==
  IF cam # NULL /\ rend # NULL
  THEN [ran |-> TRUE, aspect |-> Aspect(v), size |-> v]
  ELSE [ran |-> FALSE, aspect |-> aspect, size |-> size]

\* The window is resized; the host calls handleResize when it is registered.
Resize ==
  /\ \E v \in Viewports \ {viewport} :
       /\ viewport' = v
       /\ IF resizeListener
          THEN LET r == HandleResize(camera, renderer, v, cameraAspect,
                                    rendererSize)
               IN  /\ cameraAspect' = r.aspect
                   /\ rendererSize' = r.size
                   /\ resized' = (resized \/ r.ran)
          ELSE UNCHANGED <<cameraAspect, rendererSize, resized>>
  /\ UNCHANGED <<lifecycle, refVars, nodeRefVars, sceneChildren, disposeVars,
                 resizeListener, loadState, modelVars, loopVars, console,
                 uncaught>>

\* ------------------------------------------------------------------------
\* onUnmounted
\* ------------------------------------------------------------------------
\* Faulty variant: the cancel call is missing
CancelFrameMissing(id, pend) == pend

\* cancelAnimationFrame(id) under the guard if (animationFrameId)
CancelFrame(id, pend) == IF id # NULL /\ id # 0 THEN pend \ {id} ELSE pend

\* The meshes of model that scene.traverse reaches: those of an attached model
AttachedMeshes ==
  IF \E k \in 1..Len(sceneChildren) : sceneChildren[k] = "model"
  THEN {i \in 1..Len(model) : model[i].mesh}
  ELSE {}

\* Faulty variant: an array of materials is passed over
MaterialsReleasedSingleOnly(node) ==
  IF node.material.array THEN {}
  ELSE IF node.material.count > 0 THEN {1} ELSE {}

\* The materials of a mesh that the traversal releases: each element of an
\* array, else the one material if there is one
MaterialsReleased(node) ==
  IF node.material.array THEN 1..node.material.count
  ELSE IF node.material.count > 0 THEN {1} ELSE {}

\* Faulty variant: renderer.value.dispose() without the test of renderer.value
RendererDisposeUnchecked(rend, was) ==
  IF rend # NULL THEN [threw |-> FALSE, disposed |-> TRUE]
                 ELSE [threw |-> TRUE, disposed |-> was]

\* if (renderer.value) renderer.value.dispose(): whether the renderer is
\* disposed afterwards, and whether the statement threw
RendererDispose(rend, was) ==
  IF rend # NULL THEN [threw |-> FALSE, disposed |-> TRUE]
                 ELSE [threw |-> FALSE, disposed |-> was]

Unmount ==
  /\ lifecycle = "mounted"
  /\ lifecycle' = "unmounted"
  /\ pending' = CancelFrame(animationFrameId, pending)
  /\ resizeListener' = FALSE
  /\ LET rd == RendererDispose(renderer, rendererDisposed)
     IN  /\ rendererDisposed' = rd.disposed
         /\ uncaught' = (uncaught \/ rd.threw)
         /\ IF rd.threw
            THEN UNCHANGED <<planeDisposed, nodesDisposed, materialsDisposed,
                             refVars, nodeRefVars, console>>
            ELSE /\ IF scene # NULL
                    THEN /\ planeDisposed' =
                              (planeDisposed \/ \E k \in 1..Len(sceneChildren) :
                                                   sceneChildren[k] = "plane")
                         /\ nodesDisposed' = nodesDisposed \cup AttachedMeshes
                         /\ materialsDisposed' = materialsDisposed \cup
                              UNION {{<<i, k>> : k \in MaterialsReleased(model[i])} :
                                       i \in AttachedMeshes}
                    ELSE UNCHANGED <<planeDisposed, nodesDisposed,
                                     materialsDisposed>>
                 /\ scene' = NULL
                 /\ camera' = NULL
                 /\ renderer' = NULL
                 /\ innerDisplay' = NULL
                 /\ outerDisplay' = NULL
                 /\ screen' = NULL
                 /\ canvasRef' = NULL
                 /\ console' = "Three.js resources cleaned up"
  /\ UNCHANGED <<animationFrameId, sceneVars, viewport, loadState, modelVars,
                 nextHandle, rotation, frames, draws, animateCalls, resized>>

\* ------------------------------------------------------------------------
\* Specifications
\* ------------------------------------------------------------------------
Next ==
  \/ Mount
  \/ LoadProgress
  \/ LoadSuccess
  \/ LoadError
  \/ Frame
  \/ Resize
  \/ Unmount

Spec == Init /\ [][Next]_vars

\* The same program fed the laptop asset with all three parts, the hinge at
\* 0.0, and run long enough for the hinge to stop.
HingeNext ==
  \/ Mount
  \/ LoadProgress
  \/ HingeLoadSuccess
  \/ LoadError
  \/ HingeFrame
  \/ Resize
  \/ Unmount

HingeSpec == Init /\ [][HingeNext]_vars

\* A frame callback run after MaxHingeFrames of them were counted: animate
\* passes its guard, requests its successor, updates and draws as before; the
\* counters stay where they are and the host alternates between two handles.
LaterFrame ==
  /\ frames >= MaxHingeFrames
  /\ renderer # NULL
  /\ \E h \in pending :
       LET next == IF h = frames + 1 THEN frames + 2 ELSE frames + 1
       IN  /\ animationFrameId' = next
           /\ pending' = (pending \ {h}) \cup {next}
  /\ rotation' = UpdateRotation(rotation, innerDisplay, outerDisplay, screen)
  /\ UNCHANGED <<lifecycle, refVars, nodeRefVars, sceneVars, disposeVars,
                 viewport, resizeListener, loadState, modelVars, console,
                 resized, uncaught, nextHandle, frames, draws, animateCalls>>

\* The render loop without an end: the host runs the pending callback
LoopFrame == HingeFrame \/ LaterFrame

LoopNext ==
  \/ Mount
  \/ LoadProgress
  \/ HingeLoadSuccess
  \/ LoadError
  \/ LoopFrame
  \/ Resize
  \/ Unmount

MaterialLoadSuccess == LoadSuccessOf(MaterialAssets)

MaterialNext ==
  \/ Mount
  \/ LoadProgress
  \/ MaterialLoadSuccess
  \/ LoadError
  \/ Frame
  \/ Resize
  \/ Unmount

MaterialSpec == Init /\ [][MaterialNext]_vars

\* The host runs every pending animation frame callback sooner or later.
LoopSpec == Init /\ [][LoopNext]_vars /\ WF_vars(LoopFrame)

TypeOK ==
  /\ lifecycle \in {"setup", "mounted", "unmounted"}
  /\ loadState \in {"idle", "pending", "loaded", "failed"}
  /\ scene \in {NULL, OBJECT} /\ camera \in {NULL, OBJECT}
  /\ renderer \in {NULL, OBJECT} /\ canvasRef \in {NULL, OBJECT}
  /\ innerDisplay \in 0..Len(model)
  /\ outerDisplay \in 0..Len(model)
  /\ screen \in 0..Len(model)
  /\ Len(rotation) = Len(model)
  /\ \A i \in 1..Len(rotation) : rotation[i].hi \div 2 < LimbBase /\ rotation[i].lo < LimbBase
  /\ viewport \in Viewports
  /\ uncaught \in BOOLEAN

\* ------------------------------------------------------------------------
\* Properties
\* ------------------------------------------------------------------------
\* a <= b
FLeq(a, b) == ~FGreater(a, b)

NoRefs == [inner |-> NULL, outer |-> NULL, screen |-> NULL]

\* The nodes a load of the asset m records
Recorded(m) == Traverse(m, 1, NoRefs)

\* rotation.x of node i before the step: the value it was exported with when
\* the step is the one that delivers the model
Before(i) == IF i <= Len(rotation) THEN rotation[i] ELSE model'[i].rot

Count(seq, x) == Cardinality({k \in 1..Len(seq) : seq[k] = x})

\* C1: once a frame's update step has run on a model in which innerDisplay,
\* outerDisplay and screen were all found, the three nodes have the same
\* rotation.x.
C1AnimatedLinkage ==
  LET r == Recorded(model)
  IN  (frames >= 1 /\ r.inner # NULL /\ r.outer # NULL /\ r.screen # NULL)
        => /\ rotation[r.outer] = rotation[r.inner]
           /\ rotation[r.screen] = rotation[r.inner]

C1Witness ==
  /\ frames >= 2
  /\ innerDisplay # NULL /\ outerDisplay # NULL /\ screen # NULL
  /\ rotation[innerDisplay] # model[innerDisplay].rot
  /\ model[outerDisplay].rot # model[innerDisplay].rot
  /\ rotation[screen] = rotation[innerDisplay]

\* C2: an innerDisplay that starts at or above the floor -PI/2 + 0.05 (at 0.0
\* in particular) never has rotation.x below the floor.
C2FloorBound ==
  LET r == Recorded(model)
  IN  (r.inner # NULL /\ Len(rotation) = Len(model)
         /\ FLeq(Floor, model[r.inner].rot))
        => FLeq(Floor, rotation[r.inner])

\* C3: once onUnmounted has run, no step (an invocation of animate included)
\* changes a node's rotation, draws, requests a frame or changes
\* animationFrameId, and no callback is pending.
C3AfterTeardown ==
  [][lifecycle = "unmounted"
       => /\ \A i \in 1..Len(rotation') : rotation'[i] = Before(i)
          /\ draws' = draws
          /\ frames' = frames
          /\ animationFrameId' = animationFrameId
          /\ pending' = pending
          /\ pending = {}]_vars

C3Witness ==
  /\ lifecycle = "unmounted"
  /\ animateCalls > frames
  /\ pending = {}

\* C4: when onUnmounted completes, whatever the state before it, no frame
\* callback is pending, the resize listener is not registered and scene,
\* camera, renderer, innerDisplay, outerDisplay, screen and canvasRef are null.
C4UnmountUnconditional ==
  [][(lifecycle = "mounted" /\ lifecycle' = "unmounted")
       => /\ pending' = {}
          /\ ~resizeListener'
          /\ scene' = NULL /\ camera' = NULL /\ renderer' = NULL
          /\ innerDisplay' = NULL /\ outerDisplay' = NULL /\ screen' = NULL
          /\ canvasRef' = NULL]_vars

C4Witness ==
  /\ lifecycle = "unmounted"
  /\ loadState = "loaded"
  /\ frames >= 2
  /\ animationFrameId # NULL
  /\ pending = {}
  /\ scene = NULL

\* C5: a load success callback that fires after onUnmounted ran with the load
\* pending ends without a TypeError, attaches nothing to a scene, draws
\* nothing and schedules no frame.
C5UnmountBeforeLoad ==
  [][(lifecycle = "unmounted" /\ loadState = "pending" /\ loadState' = "loaded")
       => /\ ~uncaught'
          /\ sceneChildren' = sceneChildren
          /\ draws' = draws
          /\ frames' = 0
          /\ pending' = {}
          /\ animationFrameId' = NULL]_vars

C5Witness ==
  /\ lifecycle = "unmounted"
  /\ loadState = "loaded"
  /\ Len(model) > 0
  /\ frames = 0
  /\ ~uncaught

\* C6: until the load success callback has run, no frame callback has been
\* scheduled or executed and nothing has been drawn.
C6LoopStartsOnLoad ==
  loadState # "loaded"
    => /\ pending = {}
       /\ animationFrameId = NULL
       /\ animateCalls = 0
       /\ frames = 0
       /\ draws = 0

C6Witness ==
  /\ lifecycle = "mounted"
  /\ loadState = "pending"
  /\ scene # NULL
  /\ resizeListener
  /\ frames = 0

\* The scene of a failed load: the two lights and the ground plane only, no
\* node recorded, the loop not started
StaticScene ==
  /\ Count(sceneChildren, "ambientLight") = 1
  /\ Count(sceneChildren, "directionalLight") = 1
  /\ Count(sceneChildren, "plane") = 1
  /\ Len(sceneChildren) = 3
  /\ model = << >>
  /\ innerDisplay = NULL /\ outerDisplay = NULL /\ screen = NULL
  /\ pending = {}
  /\ animationFrameId = NULL
  /\ frames = 0

\* C7: after the load error callback the scene holds exactly one ambient
\* light, one directional light and the ground plane and no model, the three
\* node refs are null, no frame is scheduled, and the load is not started
\* again.
C7LoadFailure ==
  [][/\ loadState = "failed" => loadState' = "failed"
     /\ loadState' = "failed" => StaticScene']_vars

C7Witness ==
  /\ loadState = "failed"
  /\ lifecycle = "mounted"
  /\ Len(sceneChildren) = 3
  /\ renderer # NULL

\* C8: no step increases rotation.x of the recorded innerDisplay.
C8NonIncreasing ==
  [][\A i \in 1..Len(rotation') :
       i = Recorded(model').inner => FLeq(rotation'[i], Before(i))]_vars

C8Witness ==
  /\ frames >= 3
  /\ innerDisplay # NULL
  /\ FGreater(model[innerDisplay].rot, rotation[innerDisplay])
  /\ FGreater(rotation[innerDisplay], Floor)

\* n * a for a magnitude a, without rounding
RECURSIVE MagTimes(_, _)
MagTimes(n, a) ==
  IF n = 0 THEN [hi |-> 0, lo |-> 0]
  ELSE LET half == MagTimes(n \div 2, a)
           even == MagAdd(half, half)
       IN  IF n % 2 = 1 THEN MagAdd(even, a) ELSE even

\* -(a * n) in binary64, for a >= 0
NegProduct(a, n) == LET m == RoundMag(MagTimes(n, a)) IN Neg(Dbl(FALSE, m.hi, m.lo))

\* |a - b| for magnitudes
MagDist(a, b) == IF MagLess(a, b) THEN MagSub(b, a) ELSE MagSub(a, b)

\* 0.005, the step the claim names
FiveThousandths == Dbl(FALSE, 5368709, 128849019)

\* -0.5000000000000003
MinusHalfAndThreeUlp == Dbl(TRUE, 2^29, 3 * 2^7)

\* An innerDisplay exported at 0.0 that no frame has found at the floor yet
HingeOpenFromZero ==
  /\ innerDisplay # NULL
  /\ model[innerDisplay].rot = Zero
  /\ FGreater(rotation[innerDisplay], Floor)

\* C9 as stated: from 0.0, after N frames without a clamp hit rotation.x is
\* -0.005 * N, so -0.005 after 1 frame and -0.5 after 100.
C9FixedStep ==
  HingeOpenFromZero
    => /\ rotation[innerDisplay] = NegProduct(FiveThousandths, frames)
       /\ frames = 100 => rotation[innerDisplay] = MinusHalf

\* C9 as amended: from 0.0, after N frames without a clamp hit rotation.x is
\* the result of N binary64 subtractions of 0.005, which is within N * 2^-53
\* of -(N * 0.005): it is -0.005 after 1 frame, -0.005 * N up to 5 frames,
\* and -0.5000000000000003 after 100.
C9FixedStepRounded ==
  HingeOpenFromZero
    => LET x == rotation[innerDisplay]
           d == MagDist(x, MagTimes(frames, FiveThousandths))
       IN  /\ x.neg = (frames > 0)
           /\ d.hi = 0 /\ d.lo <= frames * 2^7
           /\ frames = 1 => x = Neg(FiveThousandths)
           /\ frames <= 5 => x = NegProduct(FiveThousandths, frames)
           /\ frames = 100 => x = MinusHalfAndThreeUlp

C9Witness ==
  /\ HingeOpenFromZero
  /\ frames = 100
  /\ rotation[innerDisplay] = MinusHalfAndThreeUlp
  /\ rotation[innerDisplay] # MinusHalf

\* C10: once rotation.x of the recorded innerDisplay is at or below the floor,
\* no step changes it, and a frame leaves outerDisplay and screen, when
\* recorded, at that value.
C10IdempotentAtFloor ==
  [][\A i \in 1..Len(rotation') :
       (i = Recorded(model').inner /\ FLeq(Before(i), Floor))
         => /\ rotation'[i] = Before(i)
            /\ frames' > frames
                 => /\ outerDisplay # NULL => rotation'[outerDisplay] = Before(i)
                    /\ screen # NULL => rotation'[screen] = Before(i)]_vars

C10Witness ==
  /\ frames >= 5
  /\ innerDisplay # NULL
  /\ outerDisplay # NULL
  /\ model[innerDisplay].rot = NearFloor
  /\ ~FGreater(rotation[innerDisplay], Floor)
  /\ rotation[outerDisplay] = rotation[innerDisplay]

\* The camera and the renderer agree with the window
InSync == cameraAspect = Aspect(viewport) /\ rendererSize = viewport

\* C11: a resize delivered between a successful mount and unmount sets the
\* camera's aspect to w / h and the renderer's size to (w, h) in the same
\* step, so every draw call finds both equal to the viewport; at (1200, 800)
\* the aspect is 3 / 2.
C11ResizeSync ==
  [][/\ (lifecycle = "mounted" /\ camera # NULL /\ renderer # NULL
           /\ viewport' # viewport) => InSync'
     /\ draws' > draws => InSync'
     /\ (InSync' /\ viewport' = <<1200, 800>>)
          => (cameraAspect' = <<3, 2>> /\ rendererSize' = <<1200, 800>>)]_vars

C11Witness ==
  /\ lifecycle = "mounted"
  /\ resized
  /\ draws >= 2
  /\ viewport = <<1200, 800>>
  /\ cameraAspect = <<3, 2>>
  /\ rendererSize = <<1200, 800>>

\* The state of a mount that found no canvas: nothing constructed, the load
\* not started, no listener, no frame, no error
Aborted ==
  /\ lifecycle # "setup"
  /\ scene = NULL /\ camera = NULL /\ renderer = NULL
  /\ loadState = "idle"
  /\ model = << >>
  /\ ~resizeListener
  /\ pending = {}
  /\ animationFrameId = NULL
  /\ animateCalls = 0
  /\ draws = 0
  /\ ~rendererDisposed /\ ~planeDisposed
  /\ ~uncaught

\* C12: a mount that finds canvasRef null leaves scene, camera and renderer
\* null, starts no load, registers no listener and schedules no frame, and
\* this stays so in every later state, through an unmount that throws nothing.
C12MissingCanvas ==
  [][/\ (lifecycle = "setup" /\ lifecycle' = "mounted" /\ canvasRef' = NULL)
          => Aborted'
     /\ Aborted => Aborted']_vars

C12Witness ==
  /\ lifecycle = "unmounted"
  /\ Aborted
  /\ console = "Three.js resources cleaned up"

\* At most one callback is pending, it is the one animationFrameId names, and
\* one is pending whenever the loop has started and the component is mounted
SingleFlight ==
  /\ Cardinality(pending) <= 1
  /\ pending # {} => pending = {animationFrameId}
  /\ (lifecycle = "mounted" /\ loadState = "loaded") => pending # {}

\* C13: at most one frame callback is pending; from the load success callback
\* until unmount exactly one is, and animationFrameId is its handle; every
\* executed animate that passes the guard requests one successor and draws
\* once.
C13SingleFlight ==
  [][/\ SingleFlight'
     /\ frames' # frames
          => /\ frames' = frames + 1
             /\ draws' = draws + 1
             /\ nextHandle' = nextHandle + 1
             /\ pending' = {nextHandle}
             /\ animationFrameId' = nextHandle]_vars

C13Witness ==
  /\ lifecycle = "mounted"
  /\ frames >= 3
  /\ draws = frames
  /\ pending = {animationFrameId}
  /\ animationFrameId = frames

\* C14: once onUnmounted has run, scene, camera, renderer, innerDisplay,
\* outerDisplay and screen are null in every later state.
C14ClearedStayCleared ==
  lifecycle = "unmounted"
    => /\ scene = NULL /\ camera = NULL /\ renderer = NULL
       /\ innerDisplay = NULL /\ outerDisplay = NULL /\ screen = NULL

\* C15: whichever of the three nodes the asset has, an executed frame throws
\* nothing and draws once, leaves the rotation of every node that is not
\* recorded as it was, and changes no rotation at all when innerDisplay was
\* not found.
C15AbsentNodes ==
  [][frames' # frames
       => LET r == Recorded(model')
          IN  /\ uncaught' = uncaught
              /\ draws' = draws + 1
              /\ \A i \in 1..Len(rotation') :
                   (i \notin {r.inner, r.outer, r.screen} \/ r.inner = NULL)
                     => rotation'[i] = Before(i)]_vars

C15Witness ==
  /\ lifecycle = "mounted"
  /\ frames >= 2
  /\ draws = frames
  /\ innerDisplay = NULL
  /\ outerDisplay # NULL
  /\ screen # NULL
  /\ rotation[outerDisplay] = model[outerDisplay].rot
  /\ rotation[screen] # rotation[outerDisplay]
  /\ ~uncaught

\* The mesh nodes of the asset m named n
MeshesNamed(m, n) == {i \in 1..Len(m) : m[i].mesh /\ m[i].name = n}

\* The last of them in traversal order, NULL when there is none
LastMeshNamed(m, n) ==
  LET S == MeshesNamed(m, n)
  IN  IF S = {} THEN NULL ELSE CHOOSE i \in S : \A j \in S : j <= i

\* The mesh nodes of m that carry one of the three names without being the
\* last with it
EarlierDuplicates(m) ==
  UNION { MeshesNamed(m, n) \ {LastMeshNamed(m, n)} :
            n \in {InnerName, OuterName, ScreenName} }

\* C16: the success callback leaves each of innerDisplay, outerDisplay and
\* screen at the last mesh node, in traversal order, named exactly
\* 'laptop_inner_display', 'laptop_outer_display', 'laptop_screen', or at null
\* when no mesh has the name; no step changes the rotation of an earlier
\* duplicate.
C16NameMatching ==
  [][/\ (loadState = "pending" /\ loadState' = "loaded")
          => /\ innerDisplay' = LastMeshNamed(model', InnerName)
             /\ outerDisplay' = LastMeshNamed(model', OuterName)
             /\ screen' = LastMeshNamed(model', ScreenName)
     /\ \A i \in EarlierDuplicates(model') : rotation'[i] = Before(i)]_vars

C16Witness ==
  /\ lifecycle = "mounted"
  /\ Len(model) = 3
  /\ model[1].mesh /\ model[1].name = InnerName
  /\ ~model[2].mesh /\ model[2].name = InnerName
  /\ innerDisplay = 3
  /\ frames >= 2
  /\ rotation[1] = model[1].rot
  /\ rotation[3] # model[3].rot

\* -1.5249999999999895, where the hinge that starts at 0.0 stops
RestFromZero == Dbl(TRUE, 1637456281, 644232960)

\* The recorded innerDisplay is where the step no longer applies
AtRest ==
  /\ innerDisplay # NULL
  /\ FLeq(rotation[innerDisplay], Floor)
  /\ rotation[innerDisplay] = RestFromZero

\* C17: when the load succeeds with innerDisplay found and the component is
\* never unmounted, then under fair execution of the pending callbacks
\* rotation.x of innerDisplay comes to a value at or below the floor and keeps
\* it for ever, while frame callbacks go on being run.
C17HingeStops ==
  ([](lifecycle # "unmounted") /\ <>(loadState = "loaded" /\ innerDisplay # NULL))
    => (<>[]AtRest /\ []<><<LoopFrame>>_vars)

C17Witness ==
  /\ lifecycle = "mounted"
  /\ AtRest
  /\ frames = MaxHingeFrames
  /\ animationFrameId = frames + 2
  /\ pending = {animationFrameId}

\* Released: the geometry of mesh i of the model and every material it holds
MeshReleased(i) ==
  /\ i \in nodesDisposed'
  /\ \A k \in 1..model[i].material.count : <<i, k>> \in materialsDisposed'

\* C18: onUnmounted after a successful mount disposes the renderer, releases
\* geometry and material of the ground plane and, when the model was already
\* delivered, geometry and every material (one or an array) of each of its
\* meshes; once anything is released no further draw call is made.
C18ResourceRelease ==
  [][/\ (lifecycle = "mounted" /\ lifecycle' = "unmounted" /\ scene # NULL)
          => /\ rendererDisposed'
             /\ planeDisposed'
             /\ loadState = "loaded"
                  => \A i \in 1..Len(model) : model[i].mesh => MeshReleased(i)
     /\ (rendererDisposed \/ planeDisposed \/ nodesDisposed # {}
           \/ materialsDisposed # {})
          => draws' = draws]_vars

C18Witness ==
  /\ lifecycle = "unmounted"
  /\ rendererDisposed
  /\ planeDisposed
  /\ draws > 0
  /\ \E i, j \in 1..Len(model) :
       /\ model[i].material = MaterialArray(2)
       /\ {<<i, 1>>, <<i, 2>>} \subseteq materialsDisposed
       /\ model[j].material = SingleMaterial
       /\ <<j, 1>> \in materialsDisposed
       /\ {i, j} \subseteq nodesDisposed

====
